---- MODULE Spec2Model ----
(***************************************************************************)
(* Model of the arbitrage-sniper quant engine                              *)
(* (services/quant_engine/src): the in-memory order book, the spread       *)
(* engine, the Redis signal publisher, the ZeroMQ receive loop and the     *)
(* QuantEngine driver.                                                     *)
(*                                                                         *)
(* Number representation.  Python floats are modelled by exact fixed-point *)
(* and rational arithmetic on 32-bit-safe integers:                        *)
(*   - a trade price is an integer number of price units;                  *)
(*   - bid and ask are integers in units of 1e-4 price unit, so that       *)
(*     price * 0.0001 is exact;                                            *)
(*   - the raw spread profit / buy_price is kept as the exact fraction     *)
(*     [num, den]; the factor 100 is applied where the value is rounded or *)
(*     compared with the threshold;                                        *)
(*   - round(x, 2) yields integers in units of 1e-2, round(x, 4) integers  *)
(*     in units of 1e-4 (round-half-even, as Python's round);              *)
(*   - threshold_pct is an integer in units of 1e-4 percent.               *)
(* The wall clock (time.time() * 1000) is the variable now, in ms.  It is  *)
(* observed to advance only while the task is suspended in an await; the   *)
(* synchronous code between two awaits reads one clock value.              *)
(***************************************************************************)
EXTENDS Integers, Sequences, FiniteSets, TLC

VARIABLES
    pc,                 \* position of the main task (main / start / receive_loop / process_message / publish_signal / stop)
    data,               \* receive_loop: the decoded message handed to the callback
    message_count,      \* ZMQReceiver.message_count
    zmq_open,           \* ZMQReceiver socket not yet closed
    book,               \* OrderBook._book values: exchange -> symbol -> PriceLevel or None
    bookKeys,           \* OrderBook._book keys in dict insertion order
    update_count,       \* OrderBook.update_count
    threshold_pct,      \* SpreadEngine.threshold_pct
    signals_generated,  \* SpreadEngine.signals_generated
    opportunity,        \* process_message: result of find_arbitrage
    publishing,         \* the publish_signal coroutines started and not finished: [signal, msg, at]
    signal_count,       \* SignalPublisher.signal_count
    redis_open,         \* SignalPublisher connection not yet closed
    channel,            \* broker: messages broadcast on the PUB/SUB channel, in order
    history,            \* broker: the sorted set signals:history, a set of [member, score]
    now,                \* wall clock in ms
    calls,              \* history variable: calls made for the current message / the last API call
    brokerLog,          \* history variable: broker operations issued, each with the index of its message
    accepted,           \* history variable: per key, the timestamps of the updates that returned True
    history_old,        \* broker: number of members of signals:history left by earlier runs, all scored below the clock
    exit_status,        \* exit status of the process: "none" while it runs, then "0" or "1"
    shutdown,           \* history variable: the shutdown signal delivered ("none", "cancel", "interrupt")
    connects,           \* history variable: the connect calls made by start, in order: [to, ok]
    latest              \* history variable: per key, the message of greatest timestamp, the last received among equals

vars == <<pc, data, message_count, zmq_open, book, bookKeys, update_count,
          threshold_pct, signals_generated, opportunity, publishing, signal_count,
          redis_open, channel, history, now, calls, brokerLog, accepted,
          history_old, exit_status, shutdown, connects, latest>>

(***************************************************************************)
(* Program constants                                                       *)
(***************************************************************************)
MAX_PRICE_AGE_MS == 5000

\* 0.5 percent, in units of 1e-4 percent
SPREAD_THRESHOLD_PCT == 5000

\* zremrangebyrank(key, 0, -1001) keeps the last 1000 members
HISTORY_KEEP == 1000

(***************************************************************************)
(* Bounds of the model                                                     *)
(***************************************************************************)
\* frames received by the loop in one run
MaxMsgs == 3

\* update calls applied in the order-book specification
MaxUpdates == 3

\* signals generated in the spread-engine specification
MaxSignals == 2

(***************************************************************************)
(* Values                                                                  *)
(***************************************************************************)
None == [none |-> TRUE]

\* exchange identifiers are opaque case-sensitive strings
Exchanges == {"a", "b", "c", "A"}
Symbols == {"X", "Y"}

\* str.upper() on the exchange identifiers
Upper(e) ==
    CASE e \in {"a", "A"} -> "A"
      [] e \in {"b", "B"} -> "B"
      [] e \in {"c", "C"} -> "C"

\* JSON values of the price field: a number or a string
JNum(n) == [num |-> n]
JStr == [str |-> "n/a"]
IsNumber(v) == "num" \in DOMAIN v

Range(seq) == {seq[i] : i \in 1..Len(seq)}

Max(S) == CHOOSE x \in S : \A y \in S : y <= x

(***************************************************************************)
(* Arithmetic                                                              *)
(***************************************************************************)
\* floor(n * 10^k / d) and the remainder of that division, for d > 0,
\* by long division (every intermediate value stays below 10 * d)
RECURSIVE LongDiv(_, _, _)
LongDiv(n, d, k) ==
    IF k = 0 THEN [q |-> n \div d, r |-> n % d]
    ELSE LET p == LongDiv(n, d, k - 1)
         IN [q |-> p.q * 10 + (p.r * 10) \div d, r |-> (p.r * 10) % d]

\* round-half-even of the quotient whose floor is q and remainder r (of d)
HalfEven(q, r, d) ==
    IF 2 * r < d THEN q
    ELSE IF 2 * r > d THEN q + 1
    ELSE IF q % 2 = 0 THEN q ELSE q + 1

\* a fraction with positive denominator
Frac(n, d) == IF d < 0 THEN [num |-> -n, den |-> -d] ELSE [num |-> n, den |-> d]

\* exact comparison f > g of two fractions with positive denominators
RECURSIVE FracGT(_, _)
FracGT(f, g) ==
    LET qf == f.num \div f.den
        qg == g.num \div g.den
        rf == f.num % f.den
        rg == g.num % g.den
    IN IF qf # qg THEN qf > qg
       ELSE IF rf = 0 THEN FALSE
       ELSE IF rg = 0 THEN TRUE
       ELSE FracGT([num |-> g.den, den |-> rg], [num |-> f.den, den |-> rf])

\* round(x, 2) of a value x given in units of 1e-4: the result in units of 1e-2
Round2(x) == HalfEven(x \div 100, x % 100, 100)

\* round(f * 100, 4) of the fraction f: the result in units of 1e-4
Round4Pct(f) ==
    LET p == LongDiv(f.num, f.den, 6)
    IN HalfEven(p.q, p.r, f.den)

\* f * 100 > t, exactly, for a threshold t in units of 1e-4
PctGT(f, t) ==
    LET p == LongDiv(f.num, f.den, 6)
    IN p.q > t \/ (p.q = t /\ p.r > 0)

(***************************************************************************)
(* Order book (order_book.py)                                              *)
(***************************************************************************)
\* PriceLevel synthesized by update from a trade price: bid/ask in 1e-4 units
PriceLevel(price, timestamp) ==
    LET spread_buffer == price      \* price * 0.0001, in units of 1e-4
    IN [bid |-> price * 10000 - spread_buffer,
        ask |-> price * 10000 + spread_buffer,
        timestamp |-> timestamp]

\* "if exchange not in self._book: self._book[exchange] = {}"
ensure_exchange(exchange) ==
    IF exchange \in Range(bookKeys) THEN bookKeys ELSE Append(bookKeys, exchange)

\* mutant: the staleness check left out, every update is stored
older_than_current_unchecked(current, timestamp) == FALSE

\* mutant: an equal timestamp rejected too
older_than_current_le(current, timestamp) ==
    current # None /\ timestamp <= current.timestamp

\* mutant: a message already older than max_age_ms on arrival rejected too
older_than_current_or_aged(current, timestamp) ==
    \/ current # None /\ timestamp < current.timestamp
    \/ now - timestamp > MAX_PRICE_AGE_MS

\* "if current and timestamp < current.timestamp"
older_than_current(current, timestamp) ==
    current # None /\ timestamp < current.timestamp

\* mutant: update_count raised before the staleness check, so that a rejected
\* update is counted
update_counting_rejected(exchange, symbol, price, timestamp) ==
    LET keys1 == ensure_exchange(exchange)
        current == book[exchange][symbol]
    IN IF older_than_current(current, timestamp)
       THEN [ret |-> "False", keys |-> keys1, book |-> book, count |-> update_count + 1]
       ELSE IF ~IsNumber(price)
       THEN [ret |-> "TypeError", keys |-> keys1, book |-> book, count |-> update_count]
       ELSE [ret |-> "True", keys |-> keys1,
             book |-> [book EXCEPT ![exchange][symbol] = PriceLevel(price.num, timestamp)],
             count |-> update_count + 1]

\* mutant: update_count not raised by an accepted update
update_not_counting(exchange, symbol, price, timestamp) ==
    LET keys1 == ensure_exchange(exchange)
        current == book[exchange][symbol]
    IN IF older_than_current(current, timestamp)
       THEN [ret |-> "False", keys |-> keys1, book |-> book, count |-> update_count]
       ELSE IF ~IsNumber(price)
       THEN [ret |-> "TypeError", keys |-> keys1, book |-> book, count |-> update_count]
       ELSE [ret |-> "True", keys |-> keys1,
             book |-> [book EXCEPT ![exchange][symbol] = PriceLevel(price.num, timestamp)],
             count |-> update_count]

\* OrderBook.update: the value returned (or the exception raised) and the
\* state of the book after the call
update(exchange, symbol, price, timestamp) ==
    LET keys1 == ensure_exchange(exchange)
        current == book[exchange][symbol]
    IN IF older_than_current(current, timestamp)
       THEN [ret |-> "False", keys |-> keys1, book |-> book, count |-> update_count]
       ELSE IF ~IsNumber(price)
       THEN [ret |-> "TypeError", keys |-> keys1, book |-> book, count |-> update_count]
       ELSE [ret |-> "True", keys |-> keys1,
             book |-> [book EXCEPT ![exchange][symbol] = PriceLevel(price.num, timestamp)],
             count |-> update_count + 1]

\* OrderBook.get
get(exchange, symbol) ==
    IF exchange \in Range(bookKeys) THEN book[exchange][symbol] ELSE None

\* mutant: an entry aged exactly max_age_ms counted as stale
is_stale_ge(timestamp) == now - timestamp >= MAX_PRICE_AGE_MS

\* mutant: the staleness filter left out
is_stale_never(timestamp) == FALSE

\* OrderBook.is_stale
is_stale(timestamp) ==
    LET age_ms == now - timestamp
    IN age_ms > MAX_PRICE_AGE_MS

\* mutant: every stored entry of the symbol is returned, whatever its age
get_all_exchanges_unfiltered(symbol) ==
    SelectSeq(bookKeys, LAMBDA e : book[e][symbol] # None)

\* OrderBook.get_all_exchanges: the keys of the result dict, in insertion
\* order (the values are the levels book[e][symbol])
get_all_exchanges(symbol) ==
    SelectSeq(bookKeys, LAMBDA e : book[e][symbol] # None
                                   /\ ~is_stale(book[e][symbol].timestamp))

\* OrderBook.get_stats
get_stats_book ==
    [exchanges |-> bookKeys, symbols_count |-> Len(bookKeys), updates |-> update_count]

(***************************************************************************)
(* Spread engine (spread_engine.py)                                        *)
(***************************************************************************)
\* the k-th (buy_ex, sell_ex) of "for buy_ex in names: for sell_ex in names"
pair_at(names, k) ==
    LET n == Len(names)
    IN [buy_ex |-> names[((k - 1) \div n) + 1], sell_ex |-> names[((k - 1) % n) + 1]]

\* profit / buy_price as an exact fraction (spread_pct is 100 times it)
spread_fraction(buy_price, sell_price) ==
    LET profit == sell_price - buy_price
    IN Frac(profit, buy_price)

\* the best_opportunity dict built for a pair
make_opportunity(buy_ex, sell_ex, buy_price, sell_price, symbol) ==
    [buy_exchange |-> buy_ex,
     sell_exchange |-> sell_ex,
     buy_price |-> Round2(buy_price),
     sell_price |-> Round2(sell_price),
     spread_pct |-> Round4Pct(spread_fraction(buy_price, sell_price)),
     profit |-> Round2(sell_price - buy_price),
     symbol |-> symbol]

\* mutant: a later pair of equal spread replaces the one kept
better_spread_ge(spread, max_spread) == ~FracGT(max_spread, spread)

\* "if spread_pct > max_spread"
better_spread(spread, max_spread) == FracGT(spread, max_spread)

\* the double loop over exchange_names from pair k on; acc holds
\* best_opportunity, max_spread and whether the division raised
RECURSIVE scan_pairs(_, _, _, _)
scan_pairs(names, symbol, k, acc) ==
    IF k > Len(names) * Len(names) \/ acc.raised THEN acc
    ELSE LET pr == pair_at(names, k)
         IN IF pr.buy_ex = pr.sell_ex THEN scan_pairs(names, symbol, k + 1, acc)
            ELSE LET buy_price == book[pr.buy_ex][symbol].ask
                     sell_price == book[pr.sell_ex][symbol].bid
                 IN IF buy_price = 0
                    THEN [acc EXCEPT !.raised = TRUE]      \* ZeroDivisionError
                    ELSE LET spread == spread_fraction(buy_price, sell_price)
                         IN IF better_spread(spread, acc.max_spread)
                            THEN scan_pairs(names, symbol, k + 1,
                                     [best |-> make_opportunity(pr.buy_ex, pr.sell_ex,
                                                                buy_price, sell_price, symbol),
                                      max_spread |-> spread,
                                      raised |-> FALSE])
                            ELSE scan_pairs(names, symbol, k + 1, acc)

\* mutant: the threshold test made with >=
exceeds_threshold_ge(best) ==
    best # None /\ best.spread_pct >= threshold_pct

\* "if best_opportunity and best_opportunity['spread_pct'] > self.threshold_pct"
exceeds_threshold(best) ==
    best # None /\ best.spread_pct > threshold_pct

\* SpreadEngine.find_arbitrage: the value returned (None or the opportunity),
\* or the exception raised, and signals_generated after the call
find_arbitrage(symbol) ==
    LET exchanges == get_all_exchanges(symbol)
    IN IF Len(exchanges) < 2
       THEN [ret |-> None, exc |-> "none", signals |-> signals_generated]
       ELSE LET acc == scan_pairs(exchanges, symbol, 1,
                           [best |-> None, max_spread |-> Frac(0, 1), raised |-> FALSE])
            IN IF acc.raised
               THEN [ret |-> None, exc |-> "ZeroDivisionError", signals |-> signals_generated]
               ELSE IF exceeds_threshold(acc.best)
               THEN [ret |-> acc.best, exc |-> "none", signals |-> signals_generated + 1]
               ELSE [ret |-> None, exc |-> "none", signals |-> signals_generated]

(***************************************************************************)
(* State after construction (QuantEngine.__init__ and the components'      *)
(* __init__), apart from pc and threshold_pct                              *)
(***************************************************************************)
Clock == {6000, 6001, 7000}

Constructed ==
    /\ data = None
    /\ message_count = 0
    /\ zmq_open = TRUE
    /\ book = [e \in Exchanges |-> [s \in Symbols |-> None]]
    /\ bookKeys = <<>>
    /\ update_count = 0
    /\ signals_generated = 0
    /\ opportunity = None
    /\ publishing = <<>>
    /\ signal_count = 0
    /\ redis_open = TRUE
    /\ channel = <<>>
    /\ history = {}
    /\ calls = <<>>
    /\ brokerLog = <<>>
    /\ accepted = [e \in Exchanges |-> [s \in Symbols |-> {}]]
    /\ exit_status = "none"
    /\ shutdown = "none"
    /\ connects = <<>>
    /\ latest = [e \in Exchanges |-> [s \in Symbols |-> None]]

\* the message that wins for its key by the ordering rule: the greatest
\* timestamp, and among equal timestamps the one received last
latest_after(e, s, p, t) ==
    IF IsNumber(p) /\ (latest[e][s] = None \/ t >= latest[e][s].timestamp)
    THEN [latest EXCEPT ![e][s] = [price |-> p, timestamp |-> t]]
    ELSE latest

\* the timestamps of accepted updates after update(e, s, _, t) returned ret
accepted_after(e, s, t, ret) ==
    IF ret = "True" THEN [accepted EXCEPT ![e][s] = @ \cup {t}] ELSE accepted

\* the record kept of an update call
update_call(e, s, p, t, r) ==
    [call |-> "update", exchange |-> e, symbol |-> s, price |-> p, timestamp |-> t,
     current |-> book[e][s], ret |-> r.ret, msg |-> message_count]

(***************************************************************************)
(* SpecBook: the order book driven through its API (update,                *)
(* get_all_exchanges) with the clock advancing between calls               *)
(***************************************************************************)
BookExchanges == {"a", "b"}
BookPrices == {JNum(100), JNum(101), JStr}
BookTimestamps == {1000, 2000}

InitBook ==
    /\ Constructed
    /\ pc = "api"
    /\ threshold_pct = SPREAD_THRESHOLD_PCT
    /\ now = 6000
    /\ history_old = 0

ApiUpdate ==
    /\ pc = "api"
    /\ update_count < MaxUpdates
    /\ \E e \in BookExchanges, s \in Symbols, p \in BookPrices, t \in BookTimestamps :
          LET r == update(e, s, p, t)
          IN /\ book' = r.book
             /\ bookKeys' = r.keys
             /\ update_count' = r.count
             /\ accepted' = accepted_after(e, s, t, r.ret)
             /\ latest' = latest_after(e, s, p, t)
             /\ calls' = <<update_call(e, s, p, t, r)>>
    /\ UNCHANGED <<pc, data, message_count, zmq_open, threshold_pct, signals_generated,
                   opportunity, publishing, signal_count, redis_open, channel, history,
                   now, brokerLog,
                   history_old, exit_status, shutdown, connects>>

ApiSnapshot ==
    /\ pc = "api"
    /\ \E s \in Symbols :
          calls' = <<[call |-> "get_all_exchanges", symbol |-> s,
                      ret |-> get_all_exchanges(s)]>>
    /\ UNCHANGED <<pc, data, message_count, zmq_open, book, bookKeys, update_count,
                   threshold_pct, signals_generated, opportunity, publishing, signal_count,
                   redis_open, channel, history, now, brokerLog, accepted,
                   history_old, exit_status, shutdown, connects, latest>>

\* time passes between two calls
ApiTick ==
    /\ pc = "api"
    /\ \E t \in Clock : t > now /\ now' = t
    /\ calls' = <<>>
    /\ UNCHANGED <<pc, data, message_count, zmq_open, book, bookKeys, update_count,
                   threshold_pct, signals_generated, opportunity, publishing, signal_count,
                   redis_open, channel, history, brokerLog, accepted,
                   history_old, exit_status, shutdown, connects, latest>>

NextBook == ApiUpdate \/ ApiSnapshot \/ ApiTick

SpecBook == InitBook /\ [][NextBook]_vars

(***************************************************************************)
(* SpecFind: the spread engine driven through find_arbitrage on the books  *)
(* that updates of one symbol on three exchanges can build, with the clock *)
(* advancing between calls                                                 *)
(***************************************************************************)
FindExchanges == {"a", "b", "c"}
FindSymbol == "X"
FindPrices == {0, 2884, 2899, 2950, -2884, -2950}
FindTimestamps == {1000, 2000}
FindThresholds == {SPREAD_THRESHOLD_PCT, -SPREAD_THRESHOLD_PCT}

\* the orders in which the exchanges of S can have been inserted
Orders(S) == {q \in [1..Cardinality(S) -> S] : \A i, j \in 1..Cardinality(S) : q[i] = q[j] => i = j}

\* the books left by one accepted update per entry
InitFind ==
    /\ pc = "api"
    /\ data = None
    /\ message_count = 0
    /\ zmq_open = TRUE
    /\ \E held \in SUBSET FindExchanges :
          /\ \E p \in [held -> FindPrices], t \in [held -> FindTimestamps] :
                /\ book = [e \in Exchanges |-> [s \in Symbols |->
                              IF e \in held /\ s = FindSymbol
                              THEN PriceLevel(p[e], t[e]) ELSE None]]
                /\ accepted = [e \in Exchanges |-> [s \in Symbols |->
                              IF e \in held /\ s = FindSymbol THEN {t[e]} ELSE {}]]
                /\ latest = [e \in Exchanges |-> [s \in Symbols |->
                              IF e \in held /\ s = FindSymbol
                              THEN [price |-> JNum(p[e]), timestamp |-> t[e]]
                              ELSE None]]
          /\ bookKeys \in Orders(held)
          /\ update_count = Cardinality(held)
    /\ threshold_pct \in FindThresholds
    /\ signals_generated = 0
    /\ opportunity = None
    /\ publishing = <<>>
    /\ signal_count = 0
    /\ redis_open = TRUE
    /\ channel = <<>>
    /\ history = {}
    /\ now = 6000
    /\ calls = <<>>
    /\ brokerLog = <<>>
    /\ history_old = 0
    /\ exit_status = "none"
    /\ shutdown = "none"
    /\ connects = <<>>

\* the record kept of a find_arbitrage call
find_call(s, r) ==
    [call |-> "find_arbitrage", symbol |-> s, ret |-> r.ret, exc |-> r.exc,
     before |-> signals_generated]

ApiFind ==
    /\ pc = "api"
    /\ signals_generated < MaxSignals
    /\ \E s \in Symbols :
          LET r == find_arbitrage(s)
          IN /\ signals_generated' = r.signals
             /\ opportunity' = r.ret
             /\ calls' = <<find_call(s, r)>>
    /\ UNCHANGED <<pc, data, message_count, zmq_open, book, bookKeys, update_count,
                   threshold_pct, publishing, signal_count, redis_open, channel, history,
                   now, brokerLog, accepted,
                   history_old, exit_status, shutdown, connects, latest>>

NextFind == ApiFind \/ ApiTick

SpecFind == InitFind /\ [][NextFind]_vars

(***************************************************************************)
(* Signal publisher (redis_publisher.py)                                   *)
(***************************************************************************)
\* the signal dict built from an opportunity; action is the f-string
\* BUY_<buy>_SELL_<sell>, kept as its parts; timestamp is the local clock
build_signal(opp) ==
    [type |-> "ARBITRAGE_OPPORTUNITY",
     action |-> <<"BUY", Upper(opp.buy_exchange), "SELL", Upper(opp.sell_exchange)>>,
     symbol |-> opp.symbol,
     spread_pct |-> opp.spread_pct,
     buy_price |-> opp.buy_price,
     sell_price |-> opp.sell_price,
     profit_estimate |-> opp.profit,
     timestamp |-> now]

\* redis ZADD of one member: a member already present takes the new score
zadd(h, member, score) ==
    {x \in h : x.member # member} \cup {[member |-> member, score |-> score]}

\* a member of lowest rank (lowest score) of the sorted set
lowest(h) == CHOOSE x \in h : \A y \in h : x.score <= y.score

\* redis ZREMRANGEBYRANK key 0 -(keep+1): all but the keep highest-ranked
\* members are removed
RECURSIVE zremrangebyrank(_, _)
zremrangebyrank(h, keep) ==
    IF Cardinality(h) <= keep THEN h
    ELSE zremrangebyrank(h \ {lowest(h)}, keep)

\* the members left by earlier runs rank lowest: those that remain of them
\* after ZREMRANGEBYRANK key 0 -(HISTORY_KEEP+1)
trim_old(old, h) ==
    LET excess == old + Cardinality(h) - HISTORY_KEEP
    IN IF excess <= 0 THEN old
       ELSE IF excess >= old THEN 0
       ELSE old - excess

(***************************************************************************)
(* Driver (main.py) and receive loop (zmq_receiver.py)                     *)
(***************************************************************************)
MainExchanges == {"a", "b"}
MainSymbol == "X"
MainPrices == {JNum(2884), JNum(2950)}

\* a price 0.52 percent above 2884: the spread of the pair is 0.50000894
\* percent before rounding and 0.5 percent after
MainPriceNearThreshold == JNum(2899)
MainTimestamps == {1000, 2000}

\* a message as decoded from a well-formed frame
Message(e, p, t) ==
    [exchange |-> e, symbol |-> MainSymbol, price |-> p, timestamp |-> t]

\* the frames the ingestor may send: trades of every exchange, a trade of an
\* exchange whose identifier differs from another's in case only, a trade
\* with price 0, a trade whose price is a JSON string, a JSON object without
\* the price field, and bytes that are not JSON
Frames ==
    {[json |-> TRUE, obj |-> Message(e, p, t)] :
        e \in MainExchanges, p \in MainPrices, t \in MainTimestamps}
    \cup {[json |-> TRUE, obj |-> Message("A", MainPriceNearThreshold, 2000)]}
    \cup {[json |-> TRUE, obj |-> Message("a", JNum(0), 2000)]}
    \cup {[json |-> TRUE, obj |-> Message("b", JStr, 2000)]}
    \cup {[json |-> TRUE, obj |-> [exchange |-> "a", symbol |-> MainSymbol, timestamp |-> 1000]]}
    \cup {[json |-> FALSE]}

\* the keys process_message reads with data[...]
RequiredKeys == {"exchange", "symbol", "price", "timestamp"}

\* the exceptions of the model that are subclasses of Exception
\* (asyncio.CancelledError is a BaseException)
ExceptionClasses ==
    {"JSONDecodeError", "KeyError", "TypeError", "ZeroDivisionError", "RedisError",
     "ZMQError"}

\* mutant: the handlers wrap the whole loop instead of one iteration, so an
\* exception of the loop body ends the loop
contain_outside_loop(exc) ==
    IF exc = "CancelledError" THEN "cancelled" ELSE "fatal"

\* mutant: CancelledError handled like any Exception (as in Python before
\* 3.8, where it is a subclass of Exception)
contain_cancellation(exc) == "recv"

\* mutant: orjson.loads called outside the try of the loop body, so that a
\* decode error reaches the outer handler and ends the loop
contain_decode_outside_try(exc) ==
    IF exc = "JSONDecodeError" THEN "fatal"
    ELSE IF exc \in ExceptionClasses THEN "recv" ELSE "cancelled"

\* where the task continues after exc is raised inside the loop body: an
\* Exception is caught by "except Exception" of process_message (or, for the
\* decode error, of receive_loop) and the loop goes to the next recv;
\* CancelledError passes both handlers, is re-raised by receive_loop and ends
\* the task
contain(exc) ==
    IF exc \in ExceptionClasses THEN "recv" ELSE "cancelled"

\* mutant: the result of update is not tested
after_update_unchecked(ret) ==
    IF ret \in {"True", "False"} THEN "find" ELSE "recv"

\* "if not updated: return", or the exception of update
after_update(ret) ==
    IF ret = "True" THEN "find"
    ELSE IF ret = "False" THEN "recv"
    ELSE contain(ret)

\* "if opportunity: await publish_signal(opportunity)", or the exception of find
after_find(r) ==
    IF r.exc # "none" THEN contain(r.exc)
    ELSE IF r.ret # None THEN "publish_signal"
    ELSE "recv"

\* mutant: publish_signal started as a task of its own and not awaited
call_publish_signal_as_task == "recv"

\* "await self.signal_publisher.publish_signal(opportunity)": process_message
\* stays suspended until the coroutine has finished
call_publish_signal == "await_publish_signal"

\* the sequence q without its i-th element
Without(q, i) == SubSeq(q, 1, i - 1) \o SubSeq(q, i + 1, Len(q))

\* where the task is once a publish_signal coroutine has finished
resumed == IF pc = "await_publish_signal" THEN "recv" ELSE pc

Init ==
    /\ Constructed
    /\ pc = "main"
    /\ threshold_pct = SPREAD_THRESHOLD_PCT
    /\ now = 6000
    /\ history_old = 0

\* the record kept of a connect call of start
connect_call(to, ok) == [to |-> to, ok |-> ok]

\* mutant: the result of signal_publisher.connect() is not tested
after_redis_connect_unchecked(ok) == "zmq_connect"

\* "if not redis_ok: return"
after_redis_connect(ok) == IF ok THEN "zmq_connect" ELSE "returned"

\* QuantEngine.start: signal_publisher.connect() pings Redis.  On failure it
\* returns False, start returns, main returns normally and the process ends
\* with status 0; stop is not called.
Start ==
    /\ pc = "main"
    /\ \E ok \in BOOLEAN :
          /\ connects' = Append(connects, connect_call("redis", ok))
          /\ pc' = after_redis_connect(ok)
    /\ exit_status' = IF pc' = "returned" THEN "0" ELSE exit_status
    /\ UNCHANGED <<data, message_count, zmq_open, book, bookKeys, update_count,
                   threshold_pct, signals_generated, opportunity, publishing,
                   signal_count, redis_open, channel, history, now, calls, brokerLog,
                   accepted, history_old, shutdown, latest>>

\* QuantEngine.start: connect the ZMQ socket and enter receive_loop; a
\* ZMQError of socket.connect (malformed endpoint) leaves start and is
\* caught by "except Exception" of main, which calls stop
ZmqConnect ==
    /\ pc = "zmq_connect"
    /\ \/ /\ pc' = "recv"
          /\ connects' = Append(connects, connect_call("zmq", TRUE))
       \/ /\ pc' = "stop"
          /\ connects' = Append(connects, connect_call("zmq", FALSE))
    /\ UNCHANGED <<data, message_count, zmq_open, book, bookKeys, update_count,
                   threshold_pct, signals_generated, opportunity, publishing,
                   signal_count, redis_open, channel, history, now, calls, brokerLog,
                   accepted, history_old, exit_status, shutdown, latest>>

\* receive_loop: socket.recv() raises a transport error (zmq.ZMQError).  The
\* call is inside the try of the loop body, so "except Exception" of the
\* body handles it like a processing error and the loop calls recv again.
RecvError ==
    /\ pc = "recv"
    /\ calls' = <<[call |-> "recv", exc |-> "ZMQError"]>>
    /\ pc' = contain("ZMQError")
    /\ UNCHANGED <<data, message_count, zmq_open, book, bookKeys, update_count,
                   threshold_pct, signals_generated, opportunity, publishing,
                   signal_count, redis_open, channel, history, now, brokerLog,
                   accepted, history_old, exit_status, shutdown, connects, latest>>

\* receive_loop: socket.recv() returns a frame, it is counted and decoded
Recv ==
    /\ pc = "recv"
    /\ message_count < MaxMsgs
    /\ message_count' = message_count + 1
    /\ opportunity' = None
    /\ \E f \in Frames :
          IF f.json
          THEN /\ data' = f.obj
               /\ calls' = <<[call |-> "process_message", data |-> f.obj]>>
               /\ pc' = "update"
          ELSE /\ data' = data
               /\ calls' = <<[call |-> "loads", exc |-> "JSONDecodeError"]>>
               /\ pc' = contain("JSONDecodeError")
    /\ UNCHANGED <<zmq_open, book, bookKeys, update_count, threshold_pct,
                   signals_generated, publishing, signal_count, redis_open, channel,
                   history, now, brokerLog, accepted,
                   history_old, exit_status, shutdown, connects, latest>>

\* time passes while the task waits in socket.recv()
Tick ==
    /\ pc = "recv"
    /\ \E t \in Clock : t > now /\ now' = t
    /\ UNCHANGED <<pc, data, message_count, zmq_open, book, bookKeys, update_count,
                   threshold_pct, signals_generated, opportunity, publishing,
                   signal_count, redis_open, channel, history, calls, brokerLog,
                   accepted,
                   history_old, exit_status, shutdown, connects, latest>>

\* process_message: read the four fields and call order_book.update
UpdateStep ==
    /\ pc = "update"
    /\ IF RequiredKeys \subseteq DOMAIN data
       THEN LET r == update(data.exchange, data.symbol, data.price, data.timestamp)
            IN /\ book' = r.book
               /\ bookKeys' = r.keys
               /\ update_count' = r.count
               /\ accepted' = accepted_after(data.exchange, data.symbol, data.timestamp, r.ret)
               /\ latest' = latest_after(data.exchange, data.symbol, data.price,
                                         data.timestamp)
               /\ calls' = Append(calls, update_call(data.exchange, data.symbol,
                                                     data.price, data.timestamp, r))
               /\ pc' = after_update(r.ret)
       ELSE /\ calls' = Append(calls, [call |-> "getitem", exc |-> "KeyError"])
            /\ pc' = contain("KeyError")
            /\ UNCHANGED <<book, bookKeys, update_count, accepted, latest>>
    /\ UNCHANGED <<data, message_count, zmq_open, threshold_pct, signals_generated,
                   opportunity, publishing, signal_count, redis_open, channel, history,
                   now, brokerLog,
                   history_old, exit_status, shutdown, connects>>

\* mutant: the handler of process_message restores the entry the message's
\* update replaced when find_arbitrage raises
book_after_find_rolled_back(r) ==
    IF r.exc = "none" THEN book
    ELSE [book EXCEPT ![data.exchange][data.symbol] = calls[Len(calls)].current]

\* the book after find_arbitrage returned or raised: find only reads it, and
\* "except Exception" of process_message only prints
book_after_find(r) == book

\* process_message: call spread_engine.find_arbitrage.  The debug print made
\* before it on every 100th message reads a snapshot and changes no state.
FindStep ==
    /\ pc = "find"
    /\ LET r == find_arbitrage(data.symbol)
       IN /\ signals_generated' = r.signals
          /\ opportunity' = r.ret
          /\ book' = book_after_find(r)
          /\ calls' = Append(calls, find_call(data.symbol, r))
          /\ pc' = after_find(r)
    /\ UNCHANGED <<data, message_count, zmq_open, bookKeys, update_count,
                   threshold_pct, publishing, signal_count, redis_open, channel,
                   history, now, brokerLog, accepted,
                   history_old, exit_status, shutdown, connects, latest>>

\* process_message calls publish_signal: the signal is built and serialized,
\* and the coroutine waits for redis.publish
PublishSignal ==
    /\ pc = "publish_signal"
    /\ publishing' = Append(publishing, [signal |-> build_signal(opportunity),
                                         msg |-> message_count, at |-> "publish"])
    /\ calls' = Append(calls, [call |-> "publish_signal", opportunity |-> opportunity])
    /\ pc' = call_publish_signal
    /\ UNCHANGED <<data, message_count, zmq_open, book, bookKeys, update_count,
                   threshold_pct, signals_generated, opportunity, signal_count,
                   redis_open, channel, history, now, brokerLog, accepted,
                   history_old, exit_status, shutdown, connects, latest>>

\* publish_signal: redis.publish succeeds
Broadcast ==
    /\ \E i \in 1..Len(publishing) :
          /\ publishing[i].at = "publish"
          /\ channel' = Append(channel, publishing[i].signal)
          /\ brokerLog' = Append(brokerLog, [op |-> "publish", msg |-> publishing[i].msg])
          /\ publishing' = [publishing EXCEPT ![i].at = "zadd"]
    /\ UNCHANGED <<pc, data, message_count, zmq_open, book, bookKeys, update_count,
                   threshold_pct, signals_generated, opportunity, signal_count,
                   redis_open, history, now, calls, accepted,
                   history_old, exit_status, shutdown, connects, latest>>

\* publish_signal: redis.zadd succeeds
HistoryInsert ==
    /\ \E i \in 1..Len(publishing) :
          /\ publishing[i].at = "zadd"
          /\ history' = zadd(history, publishing[i].signal, publishing[i].signal.timestamp)
          /\ brokerLog' = Append(brokerLog, [op |-> "zadd", msg |-> publishing[i].msg])
          /\ publishing' = [publishing EXCEPT ![i].at = "zremrangebyrank"]
    /\ UNCHANGED <<pc, data, message_count, zmq_open, book, bookKeys, update_count,
                   threshold_pct, signals_generated, opportunity, signal_count,
                   redis_open, channel, now, calls, accepted,
                   history_old, exit_status, shutdown, connects, latest>>

\* publish_signal: redis.zremrangebyrank succeeds, signal_count is
\* incremented and the coroutine returns
HistoryTrim ==
    /\ \E i \in 1..Len(publishing) :
          /\ publishing[i].at = "zremrangebyrank"
          /\ history_old' = trim_old(history_old, history)
          /\ history' = zremrangebyrank(history, HISTORY_KEEP - history_old')
          /\ brokerLog' = Append(brokerLog, [op |-> "zremrangebyrank", msg |-> publishing[i].msg])
          /\ publishing' = Without(publishing, i)
    /\ signal_count' = signal_count + 1
    /\ pc' = resumed
    /\ UNCHANGED <<data, message_count, zmq_open, book, bookKeys, update_count,
                   threshold_pct, signals_generated, opportunity, redis_open, channel,
                   now, calls, accepted, exit_status, shutdown, connects, latest>>

\* mutant: every broker call in a try of its own, so that the steps after
\* the failing one are still made
after_broker_error_next_step(q, i) ==
    IF q[i].at = "publish" THEN [q EXCEPT ![i].at = "zadd"]
    ELSE IF q[i].at = "zadd" THEN [q EXCEPT ![i].at = "zremrangebyrank"]
    ELSE Without(q, i)

\* the running publish_signal coroutines after the broker call of the i-th
\* raised: the one try block is left, the rest of it is skipped
after_broker_error(q, i) == Without(q, i)

\* publish_signal: the awaited broker call raises; "except Exception" logs
\* it and the coroutine returns
BrokerFail ==
    /\ \E i \in 1..Len(publishing) :
          /\ publishing' = after_broker_error(publishing, i)
          /\ calls' = Append(calls, [call |-> publishing[i].at, exc |-> "RedisError"])
    /\ pc' = IF Len(publishing') < Len(publishing) THEN resumed ELSE pc
    /\ UNCHANGED <<data, message_count, zmq_open, book, bookKeys, update_count,
                   threshold_pct, signals_generated, opportunity, signal_count,
                   redis_open, channel, history, now, brokerLog, accepted,
                   history_old, exit_status, shutdown, connects, latest>>

\* the task is cancelled while suspended in socket.recv() or in a broker
\* call (asyncio.run cancels the main task on SIGINT): CancelledError
\* unwinds publish_signal, process_message, receive_loop, start and main,
\* none of which handles it; stop is not called, asyncio.run raises
\* KeyboardInterrupt, the module handles it and the process ends with
\* status 0
Cancel ==
    /\ pc \in {"recv", "await_publish_signal"}
    /\ pc' = contain("CancelledError")
    /\ publishing' = <<>>
    /\ shutdown' = "cancel"
    /\ exit_status' = IF pc' = "cancelled" THEN "0" ELSE exit_status
    /\ UNCHANGED <<data, message_count, zmq_open, book, bookKeys, update_count,
                   threshold_pct, signals_generated, opportunity, signal_count,
                   redis_open, channel, history, now, calls, brokerLog, accepted,
                   history_old, connects, latest>>

\* mutant: publish_signal started as a task of its own, which the interrupt
\* of the driver's task leaves running
interrupted_publish_kept(q) == q

\* the running publish_signal coroutines after KeyboardInterrupt was raised
\* in the driver's task: the exception unwinds publish_signal (it is not an
\* Exception), so the broker calls not yet made are never made
interrupted_publish(q) == <<>>

\* KeyboardInterrupt raised inside the synchronous code of process_message
\* or of publish_signal between two broker calls (the default SIGINT
\* handler, in builds whose event loop does not turn SIGINT into a
\* cancellation): it passes "except Exception" of publish_signal, of
\* process_message and of receive_loop and is caught by main, which calls stop
Interrupt ==
    /\ pc \in {"update", "find", "publish_signal", "await_publish_signal"}
    /\ pc' = "stop"
    /\ publishing' = interrupted_publish(publishing)
    /\ shutdown' = "interrupt"
    /\ UNCHANGED <<data, message_count, zmq_open, book, bookKeys, update_count,
                   threshold_pct, signals_generated, opportunity,
                   signal_count, redis_open, channel, history, now, calls, brokerLog,
                   accepted, history_old, exit_status, connects, latest>>

\* QuantEngine.stop: the statistics are printed and zmq_receiver.close()
\* closes the socket and terminates the context
StopIngress ==
    /\ pc = "stop"
    /\ zmq_open' = FALSE
    /\ pc' = "redis_close"
    /\ UNCHANGED <<data, message_count, book, bookKeys, update_count,
                   threshold_pct, signals_generated, opportunity, publishing,
                   signal_count, redis_open, channel, history, now, calls, brokerLog,
                   accepted, history_old, exit_status, shutdown, connects, latest>>

\* QuantEngine.stop: await signal_publisher.close(); stop and main return and
\* the process ends with status 0
StopSink ==
    /\ pc = "redis_close"
    /\ redis_open' = FALSE
    /\ pc' = "stopped"
    /\ exit_status' = "0"
    /\ UNCHANGED <<data, message_count, zmq_open, book, bookKeys, update_count,
                   threshold_pct, signals_generated, opportunity, publishing,
                   signal_count, channel, history, now, calls, brokerLog,
                   accepted, history_old, shutdown, connects, latest>>

Next ==
    \/ Start
    \/ ZmqConnect
    \/ Recv
    \/ RecvError
    \/ Tick
    \/ UpdateStep
    \/ FindStep
    \/ PublishSignal
    \/ Broadcast
    \/ HistoryInsert
    \/ HistoryTrim
    \/ BrokerFail
    \/ Cancel
    \/ Interrupt
    \/ StopIngress
    \/ StopSink

Spec == Init /\ [][Next]_vars

(***************************************************************************)
(* SpecPub: the signal publisher driven through its API (publish_signal)   *)
(* against a broker whose history may hold members of earlier runs         *)
(***************************************************************************)
\* publish_signal calls made in one run of the publisher specification
MaxPublishes == 2

\* the opportunities handed to publish_signal
PubOpportunities ==
    {make_opportunity("a", "b", 28842884, 29497050, "X"),
     make_opportunity("b", "a", 28842884, 29497050, "X")}

\* the sizes of signals:history found at start: empty, one below the limit,
\* at the limit
HistoryAtStart == {0, HISTORY_KEEP - 1, HISTORY_KEEP}

InitPub ==
    /\ Constructed
    /\ pc = "api"
    /\ threshold_pct = SPREAD_THRESHOLD_PCT
    /\ now = 6000
    /\ history_old \in HistoryAtStart

\* the publish_signal calls on record
PublishCalls == {i \in 1..Len(calls) : calls[i].call = "publish_signal"}

\* publish_signal(o) is called and awaited: the next call is made after this
\* one has returned
ApiPublish ==
    /\ pc = "api"
    /\ publishing = <<>>
    /\ Cardinality(PublishCalls) < MaxPublishes
    /\ \E o \in PubOpportunities :
          /\ publishing' = <<[signal |-> build_signal(o),
                              msg |-> Cardinality(PublishCalls) + 1, at |-> "publish"]>>
          /\ calls' = Append(calls, [call |-> "publish_signal", opportunity |-> o])
    /\ UNCHANGED <<pc, data, message_count, zmq_open, book, bookKeys, update_count,
                   threshold_pct, signals_generated, opportunity, signal_count,
                   redis_open, channel, history, now, brokerLog, accepted,
                   history_old, exit_status, shutdown, connects, latest>>

\* time passes between two publish_signal calls
PubTick ==
    /\ pc = "api"
    /\ publishing = <<>>
    /\ \E t \in Clock : t > now /\ now' = t
    /\ UNCHANGED <<pc, data, message_count, zmq_open, book, bookKeys, update_count,
                   threshold_pct, signals_generated, opportunity, publishing,
                   signal_count, redis_open, channel, history, calls, brokerLog,
                   accepted, history_old, exit_status, shutdown, connects, latest>>

NextPub ==
    \/ ApiPublish
    \/ Broadcast
    \/ HistoryInsert
    \/ HistoryTrim
    \/ BrokerFail
    \/ PubTick

SpecPub == InitPub /\ [][NextPub]_vars

(***************************************************************************)
(* Properties of the order book                                            *)
(***************************************************************************)
\* the update calls on record
UpdateCalls == {i \in 1..Len(calls) : calls[i].call = "update"}

\* C4 (timestamp monotonicity): for every key, an entry is stored exactly when
\* some update of the key returned True, its timestamp is the greatest
\* timestamp among those updates, and no step lowers or removes the stored
\* timestamp of a key.
C4_TimestampMonotonic ==
    /\ [](\A e \in Exchanges, s \in Symbols :
            /\ (get(e, s) = None) <=> (accepted[e][s] = {})
            /\ accepted[e][s] # {} => get(e, s).timestamp = Max(accepted[e][s]))
    /\ [][\A e \in Exchanges, s \in Symbols :
            book[e][s] # None =>
                /\ book'[e][s] # None
                /\ book'[e][s].timestamp >= book[e][s].timestamp]_vars

\* a key updated at two timestamps, then offered the older one again and
\* rejected
C4_Witness ==
    /\ Len(calls) = 1
    /\ calls[1].call = "update"
    /\ calls[1].ret = "False"
    /\ Cardinality(accepted[calls[1].exchange][calls[1].symbol]) = 2
    /\ get(calls[1].exchange, calls[1].symbol).timestamp
          = Max(accepted[calls[1].exchange][calls[1].symbol])
    /\ calls[1].timestamp < get(calls[1].exchange, calls[1].symbol).timestamp

\* C5 (stale rejection): an update with a numeric price returns False exactly
\* when the key already held an entry with a strictly greater timestamp; in
\* every other case it returns True and the key holds the level synthesized
\* from the call's price and timestamp.
C5_StaleRejection ==
    \A i \in UpdateCalls :
        LET c == calls[i]
        IN IsNumber(c.price) =>
              /\ (c.ret = "False") <=>
                     (c.current # None /\ c.current.timestamp > c.timestamp)
              /\ c.ret # "False" =>
                     /\ c.ret = "True"
                     /\ get(c.exchange, c.symbol) =
                            [bid |-> 9999 * c.price.num, ask |-> 10001 * c.price.num,
                             timestamp |-> c.timestamp]

\* an update whose timestamp equals the stored one is accepted and overwrites
\* the price
C5_Witness ==
    \E i \in UpdateCalls :
        /\ calls[i].ret = "True"
        /\ calls[i].current # None
        /\ calls[i].current.timestamp = calls[i].timestamp
        /\ calls[i].current # get(calls[i].exchange, calls[i].symbol)

\* the get_all_exchanges calls on record
SnapshotCalls == {i \in 1..Len(calls) : calls[i].call = "get_all_exchanges"}

\* C6 (snapshot staleness): the result of get_all_exchanges(s) holds exchange
\* e exactly when an entry (e, s) is stored and now - timestamp <= max_age_ms.
C6_SnapshotStaleness ==
    \A i \in SnapshotCalls :
        Range(calls[i].ret) =
            {e \in Exchanges :
                /\ get(e, calls[i].symbol) # None
                /\ now - get(e, calls[i].symbol).timestamp <= MAX_PRICE_AGE_MS}

\* a snapshot that keeps an entry aged exactly max_age_ms and omits an older
\* one
C6_Witness ==
    \E i \in SnapshotCalls : \E e1, e2 \in Exchanges :
        /\ e1 \in Range(calls[i].ret)
        /\ now - get(e1, calls[i].symbol).timestamp = MAX_PRICE_AGE_MS
        /\ get(e2, calls[i].symbol) # None
        /\ now - get(e2, calls[i].symbol).timestamp > MAX_PRICE_AGE_MS
        /\ e2 \notin Range(calls[i].ret)

(***************************************************************************)
(* Properties of the spread engine                                         *)
(***************************************************************************)
\* the find_arbitrage calls on record
FindCalls == {i \in 1..Len(calls) : calls[i].call = "find_arbitrage"}

\* the exchanges holding a non-stale entry for symbol s
Fresh(s) ==
    {e \in Exchanges : book[e][s] # None
                       /\ now - book[e][s].timestamp <= MAX_PRICE_AGE_MS}

\* the ordered pairs <<buy, sell>> of distinct non-stale exchanges
Pairs(s) == {pr \in Fresh(s) \X Fresh(s) : pr[1] # pr[2]}

\* the unrounded spread (sell bid - buy ask) / buy ask of a pair
RawSpread(s, pr) ==
    Frac(book[pr[2]][s].bid - book[pr[1]][s].ask, book[pr[1]][s].ask)

\* the position of an exchange in the store's iteration order
Pos(e) == CHOOSE i \in 1..Len(bookKeys) : bookKeys[i] = e

\* pair p is enumerated no later than pair q
NoLater(p, q) ==
    \/ Pos(p[1]) < Pos(q[1])
    \/ Pos(p[1]) = Pos(q[1]) /\ Pos(p[2]) <= Pos(q[2])

\* C7 (threshold gating), as claimed: with a threshold >= 0, whenever find
\* returns normally it returns None if no pair's unrounded spread_pct exceeds
\* threshold_pct, and the opportunity of a maximising pair if some pair's
\* unrounded spread_pct exceeds it; rounding does not change the decision.
C7_ThresholdGating ==
    \A i \in FindCalls :
        LET c == calls[i]
            s == calls[i].symbol
        IN (threshold_pct >= 0 /\ c.exc = "none"
              /\ \A pr \in Pairs(s) : book[pr[1]][s].ask # 0) =>
              /\ (\A pr \in Pairs(s) : ~PctGT(RawSpread(s, pr), threshold_pct))
                    => c.ret = None
              /\ (\E pr \in Pairs(s) : PctGT(RawSpread(s, pr), threshold_pct))
                    => /\ c.ret # None
                       /\ <<c.ret.buy_exchange, c.ret.sell_exchange>> \in Pairs(s)
                       /\ \A pr \in Pairs(s) :
                             ~FracGT(RawSpread(s, pr),
                                     RawSpread(s, <<c.ret.buy_exchange, c.ret.sell_exchange>>))

C10_NeedsTwoExchanges ==
    \A i \in FindCalls :
        Cardinality(Fresh(calls[i].symbol)) < 2 =>
            /\ calls[i].ret = None
            /\ calls[i].exc = "none"
            /\ signals_generated = calls[i].before

\* a find for a symbol with one non-stale entry and one stale entry whose
\* prices would clear the threshold
C10_Witness ==
    \E i \in FindCalls :
        LET s == calls[i].symbol
        IN /\ Cardinality(Fresh(s)) = 1
           /\ calls[i].ret = None
           /\ signals_generated = calls[i].before
           /\ \E e1 \in Fresh(s), e2 \in Exchanges \ Fresh(s) :
                 /\ book[e2][s] # None
                 /\ book[e2][s].ask # 0
                 /\ PctGT(Frac(book[e1][s].bid - book[e2][s].ask, book[e2][s].ask),
                          threshold_pct)

(***************************************************************************)
(* Properties of the driver                                                *)
(***************************************************************************)
\* the loop has handed a message with the four required fields to
\* process_message
MessageHanded ==
    /\ calls # <<>>
    /\ calls[1].call = "process_message"
    /\ RequiredKeys \subseteq DOMAIN calls[1].data

\* a call on record that raised
Raised(c) ==
    \/ "exc" \in DOMAIN c /\ c.exc # "none"
    \/ c.call = "update" /\ c.ret \notin {"True", "False"}

\* C1 (per-message pipeline): for a received message the first call is update
\* with the message's exchange, symbol, price and timestamp, the message being
\* counted as received; update, find and publish are each called at most
\* once; after update returned False (or raised) neither find nor publish is
\* called; after update returned True find is called once with the message's
\* symbol; publish is called, once and with the opportunity found, exactly
\* when find returned one.  (A keyboard interrupt raised in the middle of
\* process_message ends the processing of the message where it stands.)
C1_PipelineOrder ==
    (MessageHanded /\ shutdown # "interrupt") =>
        LET m == calls[1].data
        IN /\ message_count >= 1
           /\ UpdateCalls \subseteq {2}
           /\ FindCalls \subseteq {3}
           /\ PublishCalls \subseteq {4}
           /\ pc # "update" =>
                 /\ UpdateCalls = {2}
                 /\ calls[2].exchange = m.exchange
                 /\ calls[2].symbol = m.symbol
                 /\ calls[2].price = m.price
                 /\ calls[2].timestamp = m.timestamp
                 /\ calls[2].msg = message_count
           /\ (UpdateCalls = {2} /\ calls[2].ret # "True") =>
                 FindCalls = {} /\ PublishCalls = {}
           /\ (UpdateCalls = {2} /\ calls[2].ret = "True" /\ pc # "find") =>
                 FindCalls = {3} /\ calls[3].symbol = m.symbol
           /\ FindCalls = {} => PublishCalls = {}
           /\ (FindCalls = {3} /\ pc # "publish_signal") =>
                 /\ (calls[3].ret # None) <=> (PublishCalls = {4})
                 /\ PublishCalls = {4} => calls[4].opportunity = calls[3].ret

\* a message whose update returned True, whose find returned an opportunity
\* and whose single publish has completed
C1_Witness ==
    /\ MessageHanded
    /\ pc = "recv"
    /\ Len(calls) = 4
    /\ calls[2].ret = "True"
    /\ calls[3].ret # None
    /\ PublishCalls = {4}
    /\ signal_count >= 1

\* C2 (error containment): a call that raises is the last call made for its
\* message, and the step in which it raises leaves the task at the next
\* socket.recv(); the task never leaves the loop through a processing error.
C2_ErrorContainment ==
    /\ [](/\ \A i \in 1..Len(calls) : Raised(calls[i]) => i = Len(calls)
          /\ pc # "fatal")
    /\ [][(calls' # calls /\ calls' # <<>> /\ Raised(calls'[Len(calls')]))
             => pc' = "recv"]_vars

\* find raised ZeroDivisionError after the update of the message was stored,
\* and the loop is back at recv
C2_Witness ==
    /\ MessageHanded
    /\ Len(calls) = 3
    /\ calls[2].ret = "True"
    /\ calls[3].exc = "ZeroDivisionError"
    /\ pc = "recv"
    /\ message_count < MaxMsgs

\* C3 (order preservation): the broker operations are issued in the order of
\* the messages their signals derive from, and every call and every signal in
\* flight belongs to the message received last: no message is processed, and
\* no signal of it published, after a later message has been received.
C3_OrderPreserved ==
    /\ \A i, j \in 1..Len(brokerLog) : i < j => brokerLog[i].msg <= brokerLog[j].msg
    /\ \A i \in 1..Len(publishing) : publishing[i].msg = message_count
    /\ \A i \in UpdateCalls : calls[i].msg = message_count

\* the signals of two messages have been broadcast and inserted, the earlier
\* message's first
C3_Witness ==
    \E i, j \in 1..Len(brokerLog) :
        /\ i < j
        /\ brokerLog[i].msg < brokerLog[j].msg
        /\ brokerLog[i].op = "zadd"
        /\ brokerLog[j].op = "zadd"
        /\ Len(channel) = 2

\* C9 (pair constraint): the opportunity returned by find, the signals being
\* published, the signals broadcast and the signals in the history all name
\* two different exchanges.
C9_DistinctExchanges ==
    /\ opportunity # None => opportunity.buy_exchange # opportunity.sell_exchange
    /\ \A i \in FindCalls :
          calls[i].ret # None => calls[i].ret.buy_exchange # calls[i].ret.sell_exchange
    /\ \A i \in 1..Len(publishing) :
          publishing[i].signal.action[2] # publishing[i].signal.action[4]
    /\ \A i \in 1..Len(channel) : channel[i].action[2] # channel[i].action[4]
    /\ \A h \in history : h.member.action[2] # h.member.action[4]

(***************************************************************************)
(* Properties of the spread engine and the publisher, continued            *)
(***************************************************************************)
\* the entry of exchange e for symbol s is stored and not stale now
NotStale(e, s) ==
    /\ book[e][s] # None
    /\ now - book[e][s].timestamp <= MAX_PRICE_AGE_MS

\* C11 (no signal from a stale price): when find returns an Opportunity, the
\* entries of its buy exchange and of its sell exchange for the symbol are
\* both stored with now - timestamp <= max_age_ms at the time of the call.
C11_NoStalePrice ==
    \A i \in FindCalls :
        calls[i].ret # None =>
            /\ NotStale(calls[i].ret.buy_exchange, calls[i].symbol)
            /\ NotStale(calls[i].ret.sell_exchange, calls[i].symbol)

\* find returned an Opportunity while the book also stores, for the same
\* symbol, a stale entry whose price would have given a pair above threshold
C11_Witness ==
    \E i \in FindCalls :
        LET s == calls[i].symbol
        IN /\ calls[i].ret # None
           /\ \E e \in Exchanges \ Fresh(s) :
                 /\ book[e][s] # None
                 /\ book[e][s].ask # 0
                 /\ PctGT(Frac(book[calls[i].ret.sell_exchange][s].bid - book[e][s].ask,
                               book[e][s].ask),
                          threshold_pct)

\* C12 (published spread above threshold): every signal broadcast, every
\* signal in the history and every signal being published carries a
\* spread_pct strictly greater than threshold_pct.
C12_SpreadAboveThreshold ==
    /\ \A i \in 1..Len(channel) : channel[i].spread_pct > threshold_pct
    /\ \A h \in history : h.member.spread_pct > threshold_pct
    /\ \A i \in 1..Len(publishing) : publishing[i].signal.spread_pct > threshold_pct

\* a signal was broadcast after an earlier message had left a pair whose
\* rounded spread equals the threshold, for which nothing was broadcast
C12_Witness ==
    /\ Len(channel) = 1
    /\ channel[1].spread_pct > threshold_pct
    /\ \E e1, e2 \in Exchanges :
          /\ book[e1][MainSymbol] # None
          /\ book[e2][MainSymbol] # None
          /\ book[e1][MainSymbol].ask # 0
          /\ Round4Pct(Frac(book[e2][MainSymbol].bid - book[e1][MainSymbol].ask,
                            book[e1][MainSymbol].ask)) = threshold_pct

\* the number of members of signals:history
HistorySize == history_old + Cardinality(history)

\* C13 (bounded history), as claimed: once a publish operation has finished,
\* whether or not a broker step failed, the history holds at most 1000
\* members, each scored by the timestamp of its signal.
C13_BoundedHistory ==
    publishing = <<>> =>
        /\ HistorySize <= HISTORY_KEEP
        /\ \A h \in history : h.score = h.member.timestamp

\* C14 (signal_count), as claimed: after n calls of publish_signal have
\* finished signal_count = n, also when a broker step of a call failed.
C14_CountsEveryAttempt ==
    publishing = <<>> => signal_count = Cardinality(PublishCalls)

\* a broker call on record that raised
BrokerError(c) == "exc" \in DOMAIN c /\ c.exc = "RedisError"

\* the broker operations issued for message m, in order
OpsOf(m) ==
    LET ops == SelectSeq(brokerLog, LAMBDA o : o.msg = m)
    IN [i \in 1..Len(ops) |-> ops[i].op]

\* the broker steps of publish_signal that precede step at
StepsBefore(at) ==
    CASE at = "publish" -> <<>>
      [] at = "zadd" -> <<"publish">>
      [] at = "zremrangebyrank" -> <<"publish", "zadd">>

C16_TransportErrorEndsLoop ==
    (calls # <<>> /\ calls[Len(calls)].call = "recv" /\ Raised(calls[Len(calls)])) =>
        pc \in {"stop", "redis_close", "stopped"}

\* C17 (cooperative cancellation): once the task has been cancelled, in recv
\* or in publish_signal, the loop has been left through the re-raised
\* CancelledError, and no message is received, no call made and no broker
\* operation issued afterwards.
C17_Cancellation ==
    /\ [](shutdown = "cancel" => (pc = "cancelled" /\ publishing = <<>>))
    /\ [][shutdown = "cancel" =>
             UNCHANGED <<message_count, data, calls, book, bookKeys, update_count,
                         signals_generated, signal_count, channel, history,
                         brokerLog>>]_vars

\* the task was cancelled inside publish_signal, after the broadcast and
\* before the history insert
C17_Witness ==
    /\ shutdown = "cancel"
    /\ pc = "cancelled"
    /\ PublishCalls # {}
    /\ OpsOf(message_count) = <<"publish">>
    /\ signal_count = 0

\* C18 (graceful shutdown), as claimed: a run that ends after a shutdown
\* signal has closed the ingress and then the sink.
C18_GracefulShutdown ==
    /\ (shutdown # "none" /\ exit_status # "none") => (~zmq_open /\ ~redis_open)
    /\ ~redis_open => ~zmq_open

C20_FailureStatus ==
    (connects # <<>> /\ ~connects[1].ok /\ exit_status # "none") => exit_status # "0"

\* a frame was received and orjson.loads raised on it
DecodeErrorStep ==
    /\ message_count' = message_count + 1
    /\ calls' = <<[call |-> "loads", exc |-> "JSONDecodeError"]>>

\* process_message read a required field the decoded object does not have
MissingFieldStep ==
    /\ pc = "update"
    /\ calls' = Append(calls, [call |-> "getitem", exc |-> "KeyError"])

\* C21 (malformed frames skipped): a frame that is not valid JSON is not handed
\* to the consumer, and neither it nor a decoded object lacking a required
\* field changes the book, the counters of the book and of the engine, or
\* anything at the sink; the loop goes on to the next receive.
C21_MalformedSkipped ==
    [][(DecodeErrorStep \/ MissingFieldStep) =>
          /\ UNCHANGED <<book, bookKeys, update_count, signals_generated, publishing,
                         signal_count, channel, history, brokerLog>>
          /\ pc' = "recv"
          /\ DecodeErrorStep =>
                \A i \in 1..Len(calls') : calls'[i].call # "process_message"]_vars

\* a frame that is not JSON was skipped while the book held an entry, and the
\* loop is back at the receive
C21_Witness ==
    /\ calls = <<[call |-> "loads", exc |-> "JSONDecodeError"]>>
    /\ pc = "recv"
    /\ update_count > 0
    /\ message_count < MaxMsgs

\* C22 (latest timestamp wins): for every key the stored PriceLevel is the one
\* built from the message of greatest timestamp among the messages received
\* for that key, the last received among those of equal timestamp; a key for
\* which no message was received holds nothing.
C22_LatestWins ==
    \A e \in Exchanges, s \in Symbols :
        IF latest[e][s] = None
        THEN book[e][s] = None
        ELSE book[e][s] = PriceLevel(latest[e][s].price.num, latest[e][s].timestamp)

\* two messages of equal timestamp were stored for one key, the second
\* replacing the first, and an older message for that key was then rejected
C22_Witness ==
    /\ Len(calls) = 1
    /\ calls[1].call = "update"
    /\ calls[1].ret = "False"
    /\ update_count = 2
    /\ \E e \in BookExchanges, s \in Symbols :
          /\ calls[1].exchange = e
          /\ calls[1].symbol = s
          /\ Cardinality(accepted[e][s]) = 1
          /\ \A e2 \in Exchanges, s2 \in Symbols :
                <<e2, s2>> # <<e, s>> => accepted[e2][s2] = {}
          /\ latest[e][s].price = JNum(101)

\* the step is an update call that returned False
RejectedStep ==
    /\ Len(calls') = 1
    /\ calls'[1].call = "update"
    /\ calls'[1].ret = "False"

\* C23 (stale rejection changes nothing): an update rejected as stale leaves
\* the store as it was: every get, update_count and stats() give the same
\* result after the call as before it.
C23_RejectionChangesNothing ==
    [][RejectedStep =>
          /\ UNCHANGED <<book, bookKeys, update_count>>
          /\ get_stats_book' = get_stats_book
          /\ \A e \in Exchanges, s \in Symbols : get(e, s)' = get(e, s)]_vars

\* an update was rejected by a store that holds two exchanges
C23_Witness ==
    /\ Len(calls) = 1
    /\ calls[1].call = "update"
    /\ calls[1].ret = "False"
    /\ Len(bookKeys) = 2
    /\ update_count = 2

\* C24 (no expiry in the store): a stored entry is never deleted; get returns
\* the stored entry of a key whatever its age; and update accepts a message
\* whose timestamp is already older than max_age_ms when it arrives, unless
\* the key holds a strictly newer entry.
C24_NoExpiry ==
    /\ [](\A e \in Exchanges, s \in Symbols :
             accepted[e][s] # {} =>
                /\ get(e, s) # None
                /\ get(e, s).timestamp \in accepted[e][s])
    /\ [](\A i \in UpdateCalls :
             LET c == calls[i]
             IN (/\ IsNumber(c.price)
                 /\ is_stale(c.timestamp)
                 /\ ~(c.current # None /\ c.current.timestamp > c.timestamp)) =>
                    /\ c.ret = "True"
                    /\ get(c.exchange, c.symbol) # None
                    /\ get(c.exchange, c.symbol).timestamp = c.timestamp)
    /\ [][\A e \in Exchanges, s \in Symbols :
             book[e][s] # None => book'[e][s] # None]_vars

\* update stored a message that was older than max_age_ms when it arrived,
\* and get returns it
C24_Witness ==
    \E i \in UpdateCalls :
        /\ calls[i].ret = "True"
        /\ is_stale(calls[i].timestamp)
        /\ get(calls[i].exchange, calls[i].symbol) # None
        /\ is_stale(get(calls[i].exchange, calls[i].symbol).timestamp)
        /\ get_all_exchanges(calls[i].symbol) = <<>>

\* C25 (bid below ask), as claimed: every PriceLevel held in the book has
\* bid < ask, whatever prices update has accepted.
C25_BidBelowAsk ==
    \A e \in Exchanges, s \in Symbols :
        book[e][s] # None => book[e][s].bid < book[e][s].ask

\* C26 (no pre-read): at most one message is in flight.  A frame is received
\* only at the head of the loop with no publish outstanding; every update on
\* record and every publish outstanding belongs to the message received
\* last, so the steps of two messages never interleave.
C26_NoPreRead ==
    /\ [](Len(publishing) <= 1)
    /\ [](pc = "recv" => publishing = <<>>)
    /\ [](\A i \in 1..Len(publishing) : publishing[i].msg = message_count)
    /\ [](\A i \in UpdateCalls : calls[i].msg = message_count)
    /\ [][message_count' # message_count =>
             /\ pc = "recv"
             /\ publishing = <<>>
             /\ calls' \in {<<[call |-> "process_message", data |-> data']>>,
                            <<[call |-> "loads", exc |-> "JSONDecodeError"]>>}]_vars

\* the driver is suspended in the publish of the second message, whose
\* broadcast is done and whose history steps are not, with frames still to come
C26_Witness ==
    /\ pc = "await_publish_signal"
    /\ Len(publishing) = 1
    /\ publishing[1].at # "publish"
    /\ message_count = 2
    /\ message_count < MaxMsgs

\* C27 (counters of the pipeline): in every state the signals published are
\* at most the signals generated, which are at most the updates stored, which
\* are at most the messages received.
C27_CounterChain ==
    /\ signal_count <= signals_generated
    /\ signals_generated <= update_count
    /\ update_count <= message_count

\* two signals were generated and one of them was not counted as published
C27_Witness ==
    /\ signal_count = 1
    /\ signals_generated = 2
    /\ update_count = 3
    /\ pc = "recv"

\* C28 (a raising update changes nothing), as claimed: an update that raises
\* leaves the store as it was, so that every exchange listed by stats() has a
\* stored entry.
C28_RaiseChangesNothing ==
    \A i \in 1..Len(get_stats_book.exchanges) :
        \E s \in Symbols : get(get_stats_book.exchanges[i], s) # None

\* C29 (no rollback): the steps that follow the update of a message (find,
\* publish, their failures and the containment of them) leave the book and
\* update_count as the update left them, so the entry stored by an accepted
\* update stays in the book when find or publish fails.
C29_NoRollback ==
    /\ [](\A i \in UpdateCalls :
             LET c == calls[i]
             IN c.ret = "True" =>
                   /\ book[c.exchange][c.symbol] = PriceLevel(c.price.num, c.timestamp)
                   /\ update_count > 0)
    /\ [][(pc \in {"find", "publish_signal", "await_publish_signal"}) =>
             (UNCHANGED <<book, bookKeys, update_count>>)]_vars

\* find divided by zero for a message with price 0, the error was contained,
\* and the entry of that message is still in the book
C29_Witness ==
    /\ pc = "recv"
    /\ Len(calls) = 3
    /\ calls[3].call = "find_arbitrage"
    /\ calls[3].exc = "ZeroDivisionError"
    /\ calls[2].ret = "True"
    /\ book[data.exchange][data.symbol] = PriceLevel(0, data.timestamp)
    /\ update_count = message_count

\* C30 (no non-positive spread), as claimed: find never returns an
\* Opportunity whose sell bid is at most its buy ask, whatever the threshold.
C30_PositiveSpread ==
    \A i \in FindCalls :
        LET c == calls[i]
        IN c.ret # None =>
              book[c.ret.sell_exchange][c.symbol].bid >
                  book[c.ret.buy_exchange][c.symbol].ask

\* QuantEngine.stop has been entered
StopBegun == pc = "stop" \/ ~zmq_open

\* C31 (nothing after stop): stop is entered only from outside the receive
\* loop, with no publish outstanding, and stays entered; from then on no
\* frame is received, the book and its counter do not change, find is not
\* called and nothing reaches the broker.
C31_NothingAfterStop ==
    /\ [](StopBegun => (pc \in {"stop", "redis_close", "stopped"} /\ publishing = <<>>))
    /\ [](~redis_open => ~zmq_open)
    /\ [][StopBegun =>
             /\ StopBegun'
             /\ UNCHANGED <<message_count, data, calls, book, bookKeys, update_count,
                            signals_generated, signal_count, channel, history,
                            brokerLog, publishing>>]_vars
    /\ [][(~StopBegun /\ StopBegun') =>
             /\ pc \notin {"recv", "main"}
             /\ pc' = "stop"
             /\ (pc = "zmq_connect" \/ shutdown' = "interrupt")]_vars

\* stop has closed the ingress and the sink after an interrupt that found a
\* publish under way: the signal was broadcast and never stored
C31_Witness ==
    /\ pc = "stopped"
    /\ ~zmq_open
    /\ ~redis_open
    /\ shutdown = "interrupt"
    /\ Len(channel) = 1
    /\ history = {}
    /\ signal_count = 0
    /\ calls[Len(calls)].call = "publish_signal"

====
